---- MODULE Spec2Model ----
(***************************************************************************)
(* Model of the Eve history engine of homebridge-lib: class History of     *)
(* src/lib/MyHomeKitTypes.js (ring buffer, persistence, transfer protocol).*)
(*                                                                         *)
(* Variables carry the names of the object's properties.  A property that  *)
(* is `undefined` in JavaScript is the integer Undefined.  Every handler   *)
(* of the single-threaded event loop is one action.                        *)
(***************************************************************************)
EXTENDS Integers, Sequences, FiniteSets, TLC

\* ---------------------------------------------------------------- bounds
\* this._memorySize is 4032 in the source (line 706); the model runs the same
\* code on a ring of MemorySize slots.
MemorySize == 4
\* The loop of _onGetEntries emits at most 11 records per read (line 816); the
\* model runs the same loop with ChunkSize iterations.
ChunkSize == 3
\* Number of _addEntry invocations in a behaviour.
MaxAdds == 5
\* Number of process restarts (a new History object over the same file).
MaxRestarts == 1
\* Pending setTimeout retries of _save.
MaxTimers == 1
\* Longest string given to hexToBase64.
MaxHexLen == 3
\* Largest entry index a start-transfer request asks for.
MaxRequest == 3

\* ------------------------------------------------------------- constants
\* moment('2001-01-01T00:00:00Z').unix()
epoch == 978307200

\* JavaScript's undefined, for the numeric properties that can hold it.
Undefined == -1

\* JavaScript's NaN: what undefined++ and NaN + undefined leave in a property.
NaN == -2

\* Whether a property holds a number a comparison can succeed on.
IsNumber(x) == x # Undefined /\ x # NaN

\* JavaScript's -, + and * on numbers, NaN and undefined.
JsSub(a, b) == IF IsNumber(a) /\ IsNumber(b) THEN a - b ELSE NaN
JsAdd(a, b) == IF IsNumber(a) /\ IsNumber(b) THEN a + b ELSE NaN
JsMul(a, b) == IF IsNumber(a) /\ IsNumber(b) THEN a * b ELSE NaN

\* Math.round(a / d) for a >= 0 and d > 0; NaN for NaN.
RoundDiv(a, d) == IF IsNumber(a) THEN (2 * a + d) \div (2 * d) ELSE NaN

\* The int32 the bitwise operators make of their operand: 0 of NaN.
ToInt32(x) == IF IsNumber(x) THEN x ELSE 0

\* Wall-clock readings of moment().unix(): the device epoch itself and one
\* heartbeat period later.  The clock does not run backwards.
Times == {epoch, epoch + 600}

\* The readings of a clock that is past the device epoch.
TimesAfterEpoch == {epoch + 600, epoch + 1200}

\* Values of the heartbeat counter: one that triggers nothing, one that adds
\* an entry, one that adds an entry and saves.
Beats == {300, 605, 86405}

\* JavaScript's remainder: the sign of the result is the sign of the dividend.
JsRem(a, m) == IF a >= 0 THEN a % m ELSE 0 - ((0 - a) % m)

\* ((value & 0xFF) << 8) | ((value >>> 8) & 0xFF), on the int32 image of value.
swap16(value) == (value % 256) * 256 + ((value \div 256) % 256)

\* The four bytes of the int32 image of value, and the signed 32-bit result of
\* the shifts and ors: (value & 0xFF) << 24 is negative when bit 7 is set.
swap32(value) ==
  LET b0 == value % 256
      b1 == (value \div 256) % 256
      b2 == (value \div 65536) % 256
      b3 == (value \div 16777216) % 256
  IN  (IF b0 >= 128 THEN b0 - 256 ELSE b0) * 16777216 + b1 * 65536 + b2 * 256 + b3

\* ------------------------------------------------------------ ring slots
\* An element of this._history.  kind "noValue" is the string 'noValue' the
\* constructor stores at index 0, "hole" an index of the array never assigned
\* (undefined), "null" the null JSON.stringify writes for a hole, "marker" an
\* object with setRefTime: 1 and "entry" a copy of this._entry.  idx and seq are history
\* variables: the logical index the slot was written for and the number of the
\* _addEntry invocation that wrote it.  payload is the property the subclass
\* keeps in this._entry beside the time (status, power or temp), 0 in a slot
\* that is not a copy of this._entry.
NoValue == [kind |-> "noValue", time |-> 0, idx |-> 0, seq |-> 0, payload |-> 0]
Hole == [kind |-> "hole", time |-> 0, idx |-> 0, seq |-> 0, payload |-> 0]
Null == [kind |-> "null", time |-> 0, idx |-> 0, seq |-> 0, payload |-> 0]
Marker(time, idx, seq) ==
  [kind |-> "marker", time |-> time, idx |-> idx, seq |-> seq, payload |-> 0]
Entry(time, idx, seq) ==
  [kind |-> "entry", time |-> time, idx |-> idx, seq |-> seq, payload |-> 0]

\* array[a] = x on a JavaScript array held as a function on 0 .. length-1:
\* assigning past the end extends the array with holes.
ArraySet(array, a, x) ==
  LET len == Cardinality(DOMAIN array)
      top == IF a >= len THEN a ELSE len - 1
  IN  [i \in 0 .. top |-> IF i = a THEN x ELSE IF i < len THEN array[i] ELSE Hole]

\* Whether array[a] is an object or a string, so that array[a].setRefTime does
\* not throw a TypeError.
Readable(array, a) == a \in DOMAIN array /\ array[a].kind \notin {"hole", "null"}

\* this._history after _load assigned it a property the parsed content does not
\* have: undefined, of which no element can be read or assigned.
UndefinedHistory == [i \in {Undefined} |-> Hole]

VARIABLES
  _firstEntry, _lastEntry, _history, _usedMemory, _currentEntry, _transfer,
  _setTime, _restarted, _refTime, _initialTime, _loading,
  historyStatus,   \* this.values.historyStatus
  file,            \* content of this._filename
  readData,        \* content of the file when the outstanding read was issued
  saveTimers,      \* pending setTimeout retries of _save
  event,           \* what the step did at the transfer interface
  seq,             \* number of _addEntry invocations so far
  loadingAdds,     \* the invocations made while the outstanding load was in flight
  restarts,        \* number of restarts so far
  clock,           \* the latest reading of the wall clock
  appended,        \* the _addEntry calls applied since the store was constructed
                   \* empty, Undefined once a snapshot has been restored into it
  retryOfWrite,    \* a pending retry timer was armed by a _save that wrote
  adapter,         \* the subclass of History the object is an instance of
  sensor,          \* the properties and delegates of the subclass
  codec            \* the latest application of a conversion function

vars == <<_firstEntry, _lastEntry, _history, _usedMemory, _currentEntry, _transfer,
          _setTime, _restarted, _refTime, _initialTime, _loading, historyStatus,
          file, readData, saveTimers, event, seq, loadingAdds, restarts, clock,
          appended, retryOfWrite, adapter, sensor, codec>>

\* The ring buffer and its bookkeeping as one value.
Store == [firstEntry |-> _firstEntry, lastEntry |-> _lastEntry,
          usedMemory |-> _usedMemory, refTime |-> _refTime,
          initialTime |-> _initialTime, history |-> _history,
          restarted |-> _restarted, entry |-> sensor.entry]

\* this.loading, the property _addEntry tests (line 733).  No statement of the
\* source assigns it (_load sets this._loading), so it reads undefined.
loading == FALSE

\* this._fingerPrint of the subclass (lines 973, 1055, 1121, 1221 and 1298).
_fingerPrint ==
  CASE adapter = "Contact" -> "01 0601"
    [] adapter = "Motion" -> "02 1301 1c01"
    [] adapter = "Weather" -> "03 0102 0202 0302"
    [] OTHER -> "04 0102 0202 0702 0f03"

\* StatusOf with the counts as they are in the store (the offsets of lines
\* 772-773 dropped).
StatusOf_NoOffset(h, now) ==
  <<swap32(ToInt32(JsSub(JsSub(now, h.refTime), epoch))),
    swap32(ToInt32(h.refTime)), _fingerPrint,
    swap16(h.usedMemory), swap16(MemorySize), swap32(h.firstEntry)>>

\* The value _addEntry formats for historyStatus (lines 772-785): the fields of
\* the format string in their order, each numeric field as the swapped word
\* that numToHex then prints.
StatusOf(h, now) ==
  LET usedMemeoryOffset == IF h.usedMemory < MemorySize THEN 1 ELSE 0
      firstEntryOffset == IF h.usedMemory < MemorySize THEN 0 ELSE 1
  IN  <<swap32(ToInt32(JsSub(JsSub(now, h.refTime), epoch))),
        swap32(ToInt32(h.refTime)),
        _fingerPrint,
        swap16(h.usedMemory + usedMemeoryOffset),
        swap16(MemorySize),
        swap32(h.firstEntry + firstEntryOffset)>>

\* this.values.historyStatus before any _addEntry has published a value.
NoStatus == <<>>

\* AdvanceIndices with the restart branch leaving lastEntry as computed before
\* the marker was inserted (line 753 dropped).
AdvanceIndices_StaleLast(h, now, n) ==
  IF h.usedMemory < MemorySize
  THEN [h EXCEPT !.usedMemory = h.usedMemory + 1,
                 !.firstEntry = 0,
                 !.lastEntry = h.usedMemory + 1]
  ELSE LET first1 == h.firstEntry + 1
           last1 == first1 + h.usedMemory
       IN  IF h.restarted
           THEN [h EXCEPT !.history = ArraySet(h.history, last1 % MemorySize,
                                               Marker(now, last1, n)),
                          !.firstEntry = first1 + 1,
                          !.lastEntry = last1,
                          !.restarted = FALSE]
           ELSE [h EXCEPT !.firstEntry = first1, !.lastEntry = last1]

\* AdvanceIndices with the restart branch advancing firstEntry once only (line
\* 752 dropped).
AdvanceIndices_NoExtraFirst(h, now, n) ==
  IF h.usedMemory < MemorySize
  THEN [h EXCEPT !.usedMemory = h.usedMemory + 1,
                 !.firstEntry = 0,
                 !.lastEntry = h.usedMemory + 1]
  ELSE LET first1 == h.firstEntry + 1
           last1 == first1 + h.usedMemory
       IN  IF h.restarted
           THEN [h EXCEPT !.history = ArraySet(h.history, last1 % MemorySize,
                                               Marker(now, last1, n)),
                          !.firstEntry = first1,
                          !.lastEntry = last1,
                          !.restarted = FALSE]
           ELSE [h EXCEPT !.firstEntry = first1, !.lastEntry = last1]

\* AdvanceIndices with the test of line 740 off by one: the buffer starts to
\* evict one slot before it is full.
AdvanceIndices_EarlyWrap(h, now, n) ==
  IF h.usedMemory < MemorySize - 1
  THEN [h EXCEPT !.usedMemory = h.usedMemory + 1,
                 !.firstEntry = 0,
                 !.lastEntry = h.usedMemory + 1]
  ELSE LET first1 == h.firstEntry + 1
           last1 == first1 + h.usedMemory
       IN  IF h.restarted
           THEN [h EXCEPT !.history = ArraySet(h.history, last1 % MemorySize,
                                               Marker(now, last1, n)),
                          !.firstEntry = first1 + 1,
                          !.lastEntry = first1 + 1 + h.usedMemory,
                          !.restarted = FALSE]
           ELSE [h EXCEPT !.firstEntry = first1, !.lastEntry = last1]

\* Lines 740-756: advance the bookkeeping, and on the first eviction after a
\* restart write a reftime marker at the boundary slot.
AdvanceIndices(h, now, n) ==
  IF h.usedMemory < MemorySize
  THEN [h EXCEPT !.usedMemory = h.usedMemory + 1,
                 !.firstEntry = 0,
                 !.lastEntry = h.usedMemory + 1]
  ELSE LET first1 == h.firstEntry + 1
           last1 == first1 + h.usedMemory
       IN  IF h.restarted
           THEN [h EXCEPT !.history = ArraySet(h.history, last1 % MemorySize,
                                               Marker(now, last1, n)),
                          !.firstEntry = first1 + 1,
                          !.lastEntry = first1 + 1 + h.usedMemory,
                          !.restarted = FALSE]
           ELSE [h EXCEPT !.firstEntry = first1, !.lastEntry = last1]

\* SetRefTime without the count of the marker (line 766 dropped).
SetRefTime_NoUsed(h, now, n) ==
  IF h.refTime = 0
  THEN [h EXCEPT !.refTime = JsSub(now, epoch),
                 !.history = ArraySet(h.history, h.lastEntry,
                                      Marker(now, h.lastEntry, n)),
                 !.initialTime = now,
                 !.lastEntry = h.lastEntry + 1]
  ELSE h

\* Lines 758-767: with this._refTime === 0 set the reference time and store a
\* reftime marker before the entry.
SetRefTime(h, now, n) ==
  IF h.refTime = 0
  THEN [h EXCEPT !.refTime = JsSub(now, epoch),
                 !.history = ArraySet(h.history, h.lastEntry,
                                      Marker(now, h.lastEntry, n)),
                 !.initialTime = now,
                 !.lastEntry = h.lastEntry + 1,
                 !.usedMemory = h.usedMemory + 1]
  ELSE h

\* Lines 769-770: store a copy of this._entry at lastEntry % memorySize.
StoreEntry(h, now, n) ==
  [h EXCEPT !.history = ArraySet(h.history, h.lastEntry % MemorySize,
                                 [Entry(now, h.lastEntry, n)
                                    EXCEPT !.payload = h.entry])]

\* Lines 740-769 on a store whose properties are undefined or NaN: the test
\* undefined < memorySize is false, firstEntry++ and the sum for lastEntry give
\* NaN, and the first assignment to an element of this._history (line 748 or
\* line 769) throws a TypeError.
AddToUndefined(h) == [h EXCEPT !.firstEntry = NaN, !.lastEntry = NaN]

\* _addEntry(now), the n-th invocation, on store h: the store afterwards, the
\* status value it publishes, whether it was applied (not deferred) and
\* whether it threw.
_addEntry(h, now, n) ==
  IF loading
  THEN [store |-> h, status |-> NoStatus, applied |-> FALSE, threw |-> FALSE]
  ELSE IF h.history = UndefinedHistory
  THEN [store |-> AddToUndefined(h), status |-> NoStatus, applied |-> FALSE,
        threw |-> TRUE]
  ELSE LET h3 == StoreEntry(SetRefTime(AdvanceIndices(h, now, n), now, n), now, n)
       IN  [store |-> h3, status |-> StatusOf(h3, now), applied |-> TRUE,
            threw |-> FALSE]

\* ------------------------------------------------------- transfer session
\* The 32-bit field of a start-transfer request: what parseInt reads from hex
\* digits 4..11 of the decoded payload, as its int32 image.  A host asking for
\* entry k writes the bytes of k in little-endian order, i.e. the word
\* swap32(k); k = -1 is the request for entry 0xFFFFFFFF.
RequestFields == {swap32(k) : k \in (-1) .. MaxRequest}

\* Lines 798-804: the cursor a request field sets.
RequestedEntry(field) ==
  LET entry == swap32(field)
  IN  IF entry # 0 THEN entry ELSE 1

\* The set-reference-time record of lines 827-830, as the words it prints.
RefTimeRecord(currentEntry, refTime) ==
  [type |-> "reftime", entry |-> swap32(currentEntry),
   time |-> swap32(ToInt32(refTime)),
   idx |-> 0, seq |-> 0]

\* this._entryStream(slot) of the adapters (e.g. lines 1056-1063): the cursor,
\* the entry's time relative to the reference time, and the entry's payload.
\* The string 'noValue' has no time: the difference is NaN, which swap32 maps
\* to 0.
_entryStream(slot, currentEntry, refTime) ==
  [type |-> "entry", entry |-> swap32(currentEntry),
   time |-> IF slot.kind = "noValue" THEN 0
            ELSE swap32(ToInt32(JsSub(JsSub(slot.time, refTime), epoch))),
   idx |-> slot.idx, seq |-> slot.seq]

\* IsRefTime without the test for the first retained entry (line 821 dropped).
IsRefTime_NoFirst(h, slot, currentEntry, setTime) ==
  \/ slot.kind = "marker"
  \/ setTime

\* Lines 819-821: whether the record for the cursor is a set-reference-time
\* record.
IsRefTime(h, slot, currentEntry, setTime) ==
  \/ slot.kind = "marker"
  \/ setTime
  \/ currentEntry = h.firstEntry + 1

\* Lines 841-843: the loop stops once the cursor has passed lastEntry.
PastLast(h, currentEntry) == IsNumber(h.lastEntry) /\ currentEntry > h.lastEntry

\* The loop of lines 816-844 from iteration i on: the cursor, the resync flag
\* and the records when it ends, and whether it ended by the TypeError of
\* reading a property of undefined.
RECURSIVE EntriesLoop(_, _, _, _, _)
EntriesLoop(h, currentEntry, setTime, i, dataStream) ==
  IF i >= ChunkSize
  THEN [threw |-> FALSE, currentEntry |-> currentEntry, setTime |-> setTime,
        records |-> dataStream]
  ELSE LET address == JsRem(currentEntry, MemorySize)
       IN  IF ~Readable(h.history, address)
           THEN [threw |-> TRUE, currentEntry |-> currentEntry,
                 setTime |-> setTime, records |-> dataStream]
           ELSE LET slot == h.history[address]
                    ref == IsRefTime(h, slot, currentEntry, setTime)
                    rec == IF ref THEN RefTimeRecord(currentEntry, h.refTime)
                           ELSE _entryStream(slot, currentEntry, h.refTime)
                    setTime2 == IF ref THEN FALSE ELSE setTime
                    stream2 == Append(dataStream, rec)
                IN  IF PastLast(h, currentEntry + 1)
                    THEN [threw |-> FALSE, currentEntry |-> currentEntry + 1,
                          setTime |-> setTime2, records |-> stream2]
                    ELSE EntriesLoop(h, currentEntry + 1, setTime2, i + 1, stream2)

\* Exhausted without the test of the active flag.
Exhausted_PastLastOnly(h, currentEntry, transfer) == PastLast(h, currentEntry)

\* Exhausted with both conditions required instead of either.
Exhausted_Both(h, currentEntry, transfer) == PastLast(h, currentEntry) /\ ~transfer

\* Line 809: the read answers with the sentinel.
Exhausted(h, currentEntry, transfer) == PastLast(h, currentEntry) \/ ~transfer

\* What the step just taken did at the object's interface: nothing, an
\* _addEntry that threw ("addThrow"), a write of
\* historyRequest with the given field, or a read of historyEntries, which
\* hands the callback the chunk 00 ("sentinel") or a chunk of records ("data"),
\* or never calls it because the handler threw ("throw").  transfer0 is the
\* active flag the handler started with, cursor0 and setTime0 the cursor and the
\* resync flag a read started with.
NoEvent == [kind |-> "none", records |-> <<>>, field |-> 0, cursor0 |-> 0,
            setTime0 |-> FALSE, transfer0 |-> FALSE, wrote |-> FALSE]
AddThrowEvent == [NoEvent EXCEPT !.kind = "addThrow"]
RequestEvent(field, transfer0) ==
  [kind |-> "request", records |-> <<>>, field |-> field, cursor0 |-> 0,
   setTime0 |-> FALSE, transfer0 |-> transfer0, wrote |-> FALSE]
ReadEvent(kind, records, cursor0, setTime0, transfer0) ==
  [kind |-> kind, records |-> records, field |-> 0, cursor0 |-> cursor0,
   setTime0 |-> setTime0, transfer0 |-> transfer0, wrote |-> FALSE]

\* A step of a handler that is neither a request nor a read: "tick" a heartbeat
\* that called _addEntry, "shutdown" the shutdown event, "saveRetry" a retry
\* timer of _save; wrote tells whether the step wrote the history file.
HandlerEvent(kind, wrote) == [NoEvent EXCEPT !.kind = kind, !.wrote = wrote]

\* ------------------------------------------------------------ persistence
\* The content of the history file.  form is "none" when there is no file (or
\* it cannot be read), "text" for text JSON.parse rejects, "null" for the JSON
\* text null, "object" for a JSON object without the properties of a snapshot
\* (such as {}), and "snapshot" for the text JSON.stringify made of a snapshot.
\* JSON.stringify keeps the numbers, the string 'noValue' and the objects of
\* the array, writes null for a hole, and leaves out a property whose value is
\* undefined (hasInitialTime is FALSE).
Missing == [exists |-> FALSE, form |-> "none", firstEntry |-> 0, lastEntry |-> 0,
            usedMemory |-> 0, refTime |-> 0, hasInitialTime |-> FALSE,
            initialTime |-> 0, history |-> <<>>]
Unparsable == [Missing EXCEPT !.exists = TRUE, !.form = "text"]
JsonNull == [Missing EXCEPT !.exists = TRUE, !.form = "null"]
EmptyObject == [Missing EXCEPT !.exists = TRUE, !.form = "object"]

\* Contents of the file that are not a snapshot.
DamagedFiles == {Missing, Unparsable, JsonNull, EmptyObject}

\* Whether the content is one _save wrote.
IsSnapshot(data) == data.exists /\ data.form = "snapshot"

\* Lines 856-864: the text _save writes, JSON.stringify(data).
SnapshotOf(h) ==
  [exists |-> TRUE, form |-> "snapshot", firstEntry |-> h.firstEntry,
   lastEntry |-> h.lastEntry, usedMemory |-> h.usedMemory, refTime |-> h.refTime,
   hasInitialTime |-> (h.initialTime # Undefined),
   initialTime |-> IF h.initialTime # Undefined THEN h.initialTime ELSE 0,
   history |-> [a \in DOMAIN h.history |->
                  IF h.history[a].kind = "hole" THEN Null ELSE h.history[a]]]

\* Restored taking the restarted flag from the file as well: a restored
\* store no longer counts as restarted.
Restored_ClearsRestarted(h, data) ==
  IF ~IsSnapshot(data)
  THEN h
  ELSE [h EXCEPT !.firstEntry = data.firstEntry,
                 !.lastEntry = data.lastEntry,
                 !.usedMemory = data.usedMemory,
                 !.refTime = data.refTime,
                 !.initialTime = IF data.hasInitialTime THEN data.initialTime
                                 ELSE Undefined,
                 !.history = data.history,
                 !.restarted = FALSE]

\* Restored without the assignment of line 890: initialTime stays undefined.
Restored_NoInitialTime(h, data) ==
  IF ~IsSnapshot(data)
  THEN h
  ELSE [h EXCEPT !.firstEntry = data.firstEntry,
                 !.lastEntry = data.lastEntry,
                 !.usedMemory = data.usedMemory,
                 !.refTime = data.refTime,
                 !.history = data.history]

\* Lines 876-895: the store after the read callback got data.  A read error
\* returns at once; JSON.parse throws on unparsable text and reading a property
\* of null throws, both inside the try, before any assignment; an object
\* without the properties of a snapshot assigns undefined to all six.
Restored(h, data) ==
  IF ~data.exists \/ data.form \in {"text", "null"}
  THEN h
  ELSE IF data.form = "object"
  THEN [h EXCEPT !.firstEntry = Undefined,
                 !.lastEntry = Undefined,
                 !.usedMemory = Undefined,
                 !.refTime = Undefined,
                 !.initialTime = Undefined,
                 !.history = UndefinedHistory]
  ELSE [h EXCEPT !.firstEntry = data.firstEntry,
                 !.lastEntry = data.lastEntry,
                 !.usedMemory = data.usedMemory,
                 !.refTime = data.refTime,
                 !.initialTime = IF data.hasInitialTime THEN data.initialTime
                                 ELSE Undefined,
                 !.history = data.history]

\* Lines 851-855: _save arms a retry timer while the load is outstanding (and
\* goes on to write all the same).
SaveArmsTimer(isLoading) == isLoading

\* Lines 856-869: whether an invocation of _save writes the file.  The branch
\* of lines 851-855 does not return, so the write is made in either case.
SaveWrites(isLoading) == TRUE

\* The file after an invocation of _save on store h.
Saved(h, isLoading) == IF SaveWrites(isLoading) THEN SnapshotOf(h) ELSE file

\* Lines 703-712: the store a constructor leaves.
NewStore == [firstEntry |-> 0, lastEntry |-> 0, usedMemory |-> 0, refTime |-> 0,
             initialTime |-> Undefined, history |-> [i \in {0} |-> NoValue],
             restarted |-> TRUE, entry |-> 0]

\* Assign the store h to the object's properties.
SetStore(h) ==
  /\ _firstEntry' = h.firstEntry
  /\ _lastEntry' = h.lastEntry
  /\ _usedMemory' = h.usedMemory
  /\ _refTime' = h.refTime
  /\ _initialTime' = h.initialTime
  /\ _history' = h.history
  /\ _restarted' = h.restarted

storeVars == <<_firstEntry, _lastEntry, _usedMemory, _refTime, _initialTime,
               _history, _restarted>>
transferVars == <<_currentEntry, _transfer, _setTime>>

\* --------------------------------------------------------------- adapters
\* The subclasses of History.
Adapters == {"Consumption", "Contact", "Motion", "Power", "Weather"}

\* The subclasses that do not override _addEntry.
BaseAdders == {"Contact", "Motion", "Weather"}

\* moment.unix() as lines 1040, 1115, 1186 and 1208 call it, without an
\* argument: moment(undefined * 1000), an invalid moment, whose numeric value
\* is NaN.
MomentUnix == NaN

\* The properties a subclass constructor adds and the values of the delegates
\* it is given: entry is the payload property of this._entry (status, power or
\* temp), value the value of the observed delegate (contact, motion, power,
\* temperature; the total consumption for Consumption), consumption the value
\* of Power's consumptionDelegate, power the value of Consumption's
\* powerDelegate.  total0 is the life-time total the sensor starts with.
\* tickClock and changed are history variables of Power: the wall-clock
\* reading at the latest heartbeat that ran Power._addEntry, and whether the
\* power value has been set since.
NewSensor(a, total0) ==
  [entry |-> 0,
   value |-> IF a = "Consumption" THEN total0 ELSE 0,
   timesOpened |-> 0,
   lastActivation |-> 0,
   lastPower |-> Undefined,
   lastTime |-> Undefined,
   running |-> 0,
   total |-> IF a = "Power" THEN total0 ELSE 0,
   lastConsumption |-> Undefined,
   consumption |-> IF a = "Power" THEN total0 ELSE 0,
   power |-> 0,
   tickClock |-> Undefined,
   changed |-> FALSE]

\* No conversion function has been applied.  op names the functions applied
\* so far, bytes holds the four bytes of a 32-bit value (most significant
\* first), word the number swap32 returned, text a string given to hexToBase64,
\* out the string returned last, failed whether the function threw.
NoCodec == [op |-> "none", bytes |-> <<0, 0, 0, 0>>, word |-> 0, text |-> <<>>,
            out |-> <<>>, failed |-> FALSE]

\* ---------------------------------------------------------------- actions
\* The constructor (lines 696-721) on a system whose history file is absent.
Init ==
  /\ _firstEntry = NewStore.firstEntry
  /\ _lastEntry = NewStore.lastEntry
  /\ _usedMemory = NewStore.usedMemory
  /\ _refTime = NewStore.refTime
  /\ _initialTime = NewStore.initialTime
  /\ _history = NewStore.history
  /\ _restarted = NewStore.restarted
  /\ _currentEntry = 1
  /\ _transfer = FALSE
  /\ _setTime = TRUE
  /\ _loading = TRUE
  /\ historyStatus = NoStatus
  /\ file = Missing
  /\ readData = Missing
  /\ saveTimers = 0
  /\ event = NoEvent
  /\ seq = 0
  /\ loadingAdds = {}
  /\ restarts = 0
  /\ clock = epoch
  /\ appended = 0
  /\ retryOfWrite = FALSE
  /\ adapter = "Contact"
  /\ sensor = NewSensor("Contact", 0)
  /\ codec = NoCodec

\* ConsumptionAddEntry without the test of line 963: the first tick appends as
\* well, taking 0 for the missing previous total.
ConsumptionAddEntry_NoBaseline(now) ==
  LET previous == IF sensor.lastConsumption # Undefined
                  THEN sensor.lastConsumption ELSE 0
      delta == sensor.value - previous
  IN  [called |-> TRUE,
       r |-> _addEntry([Store EXCEPT !.entry = delta * 6], now, seq + 1),
       sensor |-> [sensor EXCEPT !.power = delta, !.entry = delta * 6,
                                 !.lastConsumption = sensor.value]]

\* Consumption._addEntry (lines 961-972) called by the heartbeat at wall-clock
\* time now: whether History._addEntry was called, its result, and the
\* subclass properties afterwards.
ConsumptionAddEntry(now) ==
  IF sensor.lastConsumption # Undefined
  THEN LET delta == sensor.value - sensor.lastConsumption
       IN  [called |-> TRUE,
            r |-> _addEntry([Store EXCEPT !.entry = delta * 6], now, seq + 1),
            sensor |-> [sensor EXCEPT !.power = delta, !.entry = delta * 6,
                                      !.lastConsumption = sensor.value]]
  ELSE [called |-> FALSE,
        r |-> [store |-> Store, status |-> NoStatus, applied |-> FALSE,
               threw |-> FALSE],
        sensor |-> [sensor EXCEPT !.lastConsumption = sensor.value]]

\* Power._addEntry (lines 1206-1220) called by the heartbeat at wall-clock
\* time wall.
PowerAddEntry(wall) ==
  LET now == MomentUnix
  IN  IF sensor.lastTime # Undefined
      THEN LET delta == JsMul(sensor.lastPower, JsSub(now, sensor.lastTime))
               running == JsAdd(sensor.running, RoundDiv(delta, 600))
               total == JsAdd(sensor.total, RoundDiv(delta, 3600))
           IN  [called |-> TRUE,
                r |-> _addEntry([Store EXCEPT !.entry = running], now, seq + 1),
                sensor |-> [sensor EXCEPT !.total = total, !.consumption = total,
                                          !.entry = running,
                                          !.lastPower = sensor.value,
                                          !.lastTime = now,
                                          !.running = 0,
                                          !.tickClock = wall,
                                          !.changed = FALSE]]
      ELSE [called |-> FALSE,
            r |-> [store |-> Store, status |-> NoStatus, applied |-> FALSE,
                   threw |-> FALSE],
            sensor |-> [sensor EXCEPT !.lastPower = sensor.value,
                                      !.lastTime = now,
                                      !.running = 0,
                                      !.tickClock = wall,
                                      !.changed = FALSE]]

\* TickAddEntry with the heartbeat leaving Contact and Motion alone.
TickAddEntry_SkipEventBased(now) ==
  IF adapter = "Consumption" THEN ConsumptionAddEntry(now)
  ELSE IF adapter = "Power" THEN PowerAddEntry(now)
  ELSE IF adapter = "Weather"
  THEN [called |-> TRUE, r |-> _addEntry(Store, now, seq + 1), sensor |-> sensor]
  ELSE [called |-> FALSE,
        r |-> [store |-> Store, status |-> NoStatus, applied |-> FALSE,
               threw |-> FALSE],
        sensor |-> sensor]

\* this._addEntry() as _heartbeat calls it (line 790), by subclass.
TickAddEntry(now) ==
  IF adapter = "Consumption" THEN ConsumptionAddEntry(now)
  ELSE IF adapter = "Power" THEN PowerAddEntry(now)
  ELSE [called |-> TRUE, r |-> _addEntry(Store, now, seq + 1), sensor |-> sensor]

\* What a call of History._addEntry with result r does to the object and to
\* the history variables.
Added(r) ==
  /\ SetStore(r.store)
  /\ historyStatus' = IF r.applied THEN r.status ELSE historyStatus
  /\ seq' = seq + 1
  /\ loadingAdds' = IF _loading THEN loadingAdds \cup {seq + 1} ELSE loadingAdds
  /\ appended' = IF r.applied /\ appended # Undefined
                 THEN appended + 1 ELSE appended

\* _heartbeat(beat) (lines 788-795) at wall-clock time now.  An _addEntry
\* that throws ends the handler: _save is not reached.
_heartbeat(beat, now) ==
  /\ now >= clock
  /\ clock' = now
  /\ (beat % 86400 = 5 /\ SaveArmsTimer(_loading)) => saveTimers < MaxTimers
  /\ IF beat % 600 = 5
     THEN \E t \in {TickAddEntry(now)} :
            LET saves == beat % 86400 = 5 /\ ~t.r.threw
                arms == saves /\ SaveArmsTimer(_loading)
            IN  /\ t.called => seq < MaxAdds
                /\ IF t.called
                   THEN Added(t.r)
                   ELSE UNCHANGED <<storeVars, historyStatus, seq, loadingAdds,
                                    appended>>
                /\ sensor' = t.sensor
                /\ event' = IF t.r.threw THEN AddThrowEvent
                            ELSE HandlerEvent("tick", saves /\ SaveWrites(_loading))
                /\ file' = IF saves THEN Saved(t.r.store, _loading) ELSE file
                /\ saveTimers' = IF arms THEN saveTimers + 1 ELSE saveTimers
                /\ retryOfWrite' = IF arms THEN retryOfWrite \/ SaveWrites(_loading)
                                   ELSE retryOfWrite
     ELSE /\ event' = NoEvent
          /\ UNCHANGED <<storeVars, historyStatus, seq, loadingAdds, file,
                         saveTimers, appended, retryOfWrite, sensor>>
  /\ UNCHANGED <<transferVars, _loading, readData, restarts, adapter, codec>>

\* The shutdown event (line 719): _save().
Shutdown ==
  /\ SaveArmsTimer(_loading) => saveTimers < MaxTimers
  /\ file' = Saved(Store, _loading)
  /\ saveTimers' = IF SaveArmsTimer(_loading) THEN saveTimers + 1 ELSE saveTimers
  /\ retryOfWrite' = IF SaveArmsTimer(_loading)
                     THEN retryOfWrite \/ SaveWrites(_loading) ELSE retryOfWrite
  /\ event' = HandlerEvent("shutdown", SaveWrites(_loading))
  /\ UNCHANGED <<storeVars, transferVars, _loading, historyStatus, readData, seq,
                 loadingAdds, restarts, clock, appended, adapter, sensor, codec>>

\* A retry timer of _save fires (lines 852-854): _save() again.
SaveRetry ==
  /\ saveTimers > 0
  /\ file' = Saved(Store, _loading)
  /\ saveTimers' = IF SaveArmsTimer(_loading) THEN saveTimers ELSE saveTimers - 1
  /\ retryOfWrite' = IF SaveArmsTimer(_loading)
                     THEN retryOfWrite \/ SaveWrites(_loading)
                     ELSE (retryOfWrite /\ saveTimers > 1)
  /\ event' = HandlerEvent("saveRetry", SaveWrites(_loading))
  /\ UNCHANGED <<storeVars, transferVars, _loading, historyStatus, readData, seq,
                 loadingAdds, restarts, clock, appended, adapter, sensor, codec>>

\* The callback of fs.readFile (lines 874-896).  The read delivers the content
\* the file had when it was issued or the content it has now.
LoadDone(data) ==
  /\ _loading
  /\ _loading' = FALSE
  /\ \E h \in {Restored(Store, data)} :
       /\ SetStore(h)
       /\ appended' = IF h # Store THEN Undefined ELSE appended
  /\ readData' = Missing
  /\ event' = NoEvent
  /\ loadingAdds' = {}
  /\ UNCHANGED <<transferVars, historyStatus, file, saveTimers, seq, restarts,
                 clock, retryOfWrite, adapter, sensor, codec>>

\* The process ends and a new one constructs the History object again (lines
\* 696-721) over the same file; timers of the old process are gone.
Restart ==
  /\ restarts < MaxRestarts
  /\ restarts' = restarts + 1
  /\ SetStore(NewStore)
  /\ _currentEntry' = 1
  /\ _transfer' = FALSE
  /\ _setTime' = TRUE
  /\ _loading' = TRUE
  /\ readData' = file
  /\ saveTimers' = 0
  /\ retryOfWrite' = FALSE
  /\ loadingAdds' = {}
  /\ appended' = 0
  /\ event' = NoEvent
  /\ sensor' = NewSensor(adapter, 0)
  /\ UNCHANGED <<historyStatus, file, seq, clock, adapter, codec>>

\* _onSetHistoryRequest that leaves the cursor of a session in progress alone.
OnSetHistoryRequest_KeepActive(field) ==
  /\ _currentEntry' = IF _transfer THEN _currentEntry ELSE RequestedEntry(field)
  /\ _transfer' = TRUE
  /\ event' = RequestEvent(field, _transfer)
  /\ UNCHANGED <<storeVars, _setTime, _loading, historyStatus, file, readData,
                 saveTimers, seq, loadingAdds, restarts, clock, appended,
                 retryOfWrite, adapter, sensor, codec>>

\* _onSetHistoryRequest(value) (lines 797-806) for a payload whose field is
\* field.
_onSetHistoryRequest(field) ==
  /\ _currentEntry' = RequestedEntry(field)
  /\ _transfer' = TRUE
  /\ event' = RequestEvent(field, _transfer)
  /\ UNCHANGED <<storeVars, _setTime, _loading, historyStatus, file, readData,
                 saveTimers, seq, loadingAdds, restarts, clock, appended,
                 retryOfWrite, adapter, sensor, codec>>

\* _onGetEntries that takes a read for the end of the restart: it clears the
\* restarted flag.
OnGetEntries_ClearsRestarted ==
  /\ IF Exhausted(Store, _currentEntry, _transfer)
     THEN /\ _transfer' = FALSE
          /\ event' = ReadEvent("sentinel", <<>>, _currentEntry, _setTime, _transfer)
          /\ UNCHANGED <<_currentEntry, _setTime>>
     ELSE \E r \in {EntriesLoop(Store, _currentEntry, _setTime, 0, <<>>)} :
            /\ _currentEntry' = r.currentEntry
            /\ _setTime' = r.setTime
            /\ event' = ReadEvent(IF r.threw THEN "throw" ELSE "data",
                                   IF r.threw THEN <<>> ELSE r.records,
                                   _currentEntry, _setTime, _transfer)
            /\ UNCHANGED _transfer
  /\ _restarted' = FALSE
  /\ UNCHANGED <<_firstEntry, _lastEntry, _usedMemory, _refTime, _initialTime,
                 _history, _loading, historyStatus, file, readData, saveTimers,
                 seq, loadingAdds, restarts, clock, appended, retryOfWrite,
                 adapter, sensor, codec>>

\* _onGetEntries(callback) (lines 808-848).
_onGetEntries ==
  /\ IF Exhausted(Store, _currentEntry, _transfer)
     THEN /\ _transfer' = FALSE
          /\ event' = ReadEvent("sentinel", <<>>, _currentEntry, _setTime, _transfer)
          /\ UNCHANGED <<_currentEntry, _setTime>>
     ELSE \E r \in {EntriesLoop(Store, _currentEntry, _setTime, 0, <<>>)} :
            /\ _currentEntry' = r.currentEntry
            /\ _setTime' = r.setTime
            /\ event' = ReadEvent(IF r.threw THEN "throw" ELSE "data",
                                   IF r.threw THEN <<>> ELSE r.records,
                                   _currentEntry, _setTime, _transfer)
            /\ UNCHANGED _transfer
  /\ UNCHANGED <<storeVars, _loading, historyStatus, file, readData, saveTimers,
                 seq, loadingAdds, restarts, clock, appended, retryOfWrite,
                 adapter, sensor, codec>>

\* A step of a didSet handler called with value.
DidSetEvent(value) == [HandlerEvent("didSet", FALSE) EXCEPT !.field = value]

\* The frame of the handlers of the subclasses.
adapterFrame == <<transferVars, _loading, file, readData, saveTimers, restarts,
                  retryOfWrite, adapter, codec>>

\* The didSet handler of contactDelegate (lines 1039-1045), called with value
\* when the wall clock reads T.
ContactDidSet(value, T) ==
  /\ adapter = "Contact"
  /\ value # sensor.value
  /\ T >= clock
  /\ clock' = T
  /\ seq < MaxAdds
  /\ \E r \in {_addEntry([Store EXCEPT !.entry = value], MomentUnix, seq + 1)} :
       /\ Added(r)
       /\ sensor' = [sensor EXCEPT
                       !.value = value,
                       !.timesOpened = sensor.timesOpened + value,
                       !.lastActivation = JsSub(MomentUnix, _initialTime),
                       !.entry = value]
       /\ event' = IF r.threw THEN AddThrowEvent ELSE DidSetEvent(value)
  /\ UNCHANGED adapterFrame

\* The didSet handler of motionDelegate (lines 1114-1119).
MotionDidSet(value, T) ==
  /\ adapter = "Motion"
  /\ value # sensor.value
  /\ T >= clock
  /\ clock' = T
  /\ seq < MaxAdds
  /\ \E r \in {_addEntry([Store EXCEPT !.entry = value], MomentUnix, seq + 1)} :
       /\ Added(r)
       /\ sensor' = [sensor EXCEPT
                       !.value = value,
                       !.lastActivation = JsSub(MomentUnix, _initialTime),
                       !.entry = value]
       /\ event' = IF r.threw THEN AddThrowEvent ELSE DidSetEvent(value)
  /\ UNCHANGED adapterFrame

\* The didSet handler of powerDelegate (lines 1185-1194).
PowerDidSet(value, T) ==
  /\ adapter = "Power"
  /\ value # sensor.value
  /\ T >= clock
  /\ clock' = T
  /\ LET now == MomentUnix
         delta == JsMul(sensor.lastPower, JsSub(now, sensor.lastTime))
         accumulates == sensor.lastTime # Undefined
     IN  sensor' = [sensor EXCEPT
                      !.value = value,
                      !.running = IF accumulates
                                  THEN JsAdd(sensor.running, RoundDiv(delta, 600))
                                  ELSE sensor.running,
                      !.total = IF accumulates
                                THEN JsAdd(sensor.total, RoundDiv(delta, 3600))
                                ELSE sensor.total,
                      !.lastPower = value,
                      !.lastTime = now,
                      !.changed = TRUE]
  /\ event' = DidSetEvent(value)
  /\ UNCHANGED <<storeVars, historyStatus, seq, loadingAdds, appended, adapterFrame>>

\* The didSet handler of temperatureDelegate (line 1292).
WeatherDidSet(value) ==
  /\ adapter = "Weather"
  /\ value # sensor.value
  /\ sensor' = [sensor EXCEPT !.value = value, !.entry = value]
  /\ event' = DidSetEvent(value)
  /\ UNCHANGED <<storeVars, historyStatus, seq, loadingAdds, appended, clock,
                 adapterFrame>>

\* The sensor reports a new life-time total to Consumption's
\* consumptionDelegate; the class registers no handler for it (lines 943-960).
ConsumptionSet(value) ==
  /\ adapter = "Consumption"
  /\ value > sensor.value
  /\ sensor' = [sensor EXCEPT !.value = value]
  /\ event' = NoEvent
  /\ UNCHANGED <<storeVars, historyStatus, seq, loadingAdds, appended, clock,
                 adapterFrame>>

\* ResetSensor for Power leaving the life-time accumulator as it is (line 1197
\* dropped).
ResetSensor_KeepTotal(a, s) ==
  IF a = "Power"
  THEN [s EXCEPT !.running = 0, !.consumption = s.total]
  ELSE IF a = "Contact"
  THEN [s EXCEPT !.timesOpened = 0]
  ELSE s

\* The didSet handlers of the resetTotal characteristic: Power's (lines
\* 1195-1199) and Contact's (lines 1046-1048).  Consumption, Motion and Weather
\* define no such characteristic and no handler: nothing is changed.
ResetSensor(a, s) ==
  IF a = "Power"
  THEN [s EXCEPT !.running = 0, !.total = 0, !.consumption = 0]
  ELSE IF a = "Contact"
  THEN [s EXCEPT !.timesOpened = 0]
  ELSE s

\* A write to reset-total.
ResetTotal ==
  /\ sensor' = ResetSensor(adapter, sensor)
  /\ event' = HandlerEvent("resetTotal", FALSE)
  /\ UNCHANGED <<storeVars, historyStatus, seq, loadingAdds, appended, clock,
                 adapterFrame>>

Next ==
  \/ \E beat \in Beats, now \in Times : _heartbeat(beat, now)
  \/ Shutdown
  \/ SaveRetry
  \/ \E data \in {readData, file} : LoadDone(data)
  \/ Restart
  \/ \E field \in RequestFields : _onSetHistoryRequest(field)
  \/ _onGetEntries

\* Every behaviour of the object, the clock reading the device epoch included.
Spec == Init /\ [][Next]_vars

\* The same handlers under a clock that is past the device epoch.
NextAfterEpoch ==
  \/ \E beat \in Beats, now \in TimesAfterEpoch : _heartbeat(beat, now)
  \/ Shutdown
  \/ SaveRetry
  \/ \E data \in {readData, file} : LoadDone(data)
  \/ Restart
  \/ \E field \in RequestFields : _onSetHistoryRequest(field)
  \/ _onGetEntries

SpecAfterEpoch == Init /\ [][NextAfterEpoch]_vars

\* The constructor (lines 696-721) on a system whose history file is absent or
\* holds something other than a snapshot; _load (line 720) has issued the read.
InitDamaged ==
  /\ _firstEntry = NewStore.firstEntry
  /\ _lastEntry = NewStore.lastEntry
  /\ _usedMemory = NewStore.usedMemory
  /\ _refTime = NewStore.refTime
  /\ _initialTime = NewStore.initialTime
  /\ _history = NewStore.history
  /\ _restarted = NewStore.restarted
  /\ _currentEntry = 1
  /\ _transfer = FALSE
  /\ _setTime = TRUE
  /\ _loading = TRUE
  /\ historyStatus = NoStatus
  /\ file \in DamagedFiles
  /\ readData = file
  /\ saveTimers = 0
  /\ event = NoEvent
  /\ seq = 0
  /\ loadingAdds = {}
  /\ restarts = 0
  /\ clock = epoch
  /\ appended = 0
  /\ retryOfWrite = FALSE
  /\ adapter = "Contact"
  /\ sensor = NewSensor("Contact", 0)
  /\ codec = NoCodec

\* The handlers of one process that starts on such a file, under a clock that
\* is past the device epoch.
NextDamaged ==
  \/ \E beat \in Beats, now \in TimesAfterEpoch : _heartbeat(beat, now)
  \/ \E data \in {readData, file} : LoadDone(data)
  \/ \E field \in RequestFields : _onSetHistoryRequest(field)
  \/ _onGetEntries

SpecDamaged == InitDamaged /\ [][NextDamaged]_vars

\* The handlers of one process whose host polls the entries field: it reads
\* again and again, and writes a start-transfer request only when no session
\* is active (at first, or after a read has returned the sentinel).
NextPolling ==
  \/ \E beat \in Beats, now \in TimesAfterEpoch : _heartbeat(beat, now)
  \/ \E data \in {readData, file} : LoadDone(data)
  \/ \E field \in RequestFields : ~_transfer /\ _onSetHistoryRequest(field)
  \/ _onGetEntries

\* A read that has something to do is eventually made.
SpecPolling == Init /\ [][NextPolling]_vars /\ WF_vars(_onGetEntries)

\* ------------------------------------------------------ the subclasses
\* Life-time totals a sensor starts with, values of contact and motion, of
\* power (W), of temperature, and life-time totals a sensor reports (Wh).
InitialTotals == {0, 5}
StatusValues == {0, 1}
PowerValues == {0, 100}
TemperatureValues == {0, 21}
ConsumptionValues == {5, 7}

\* The constructor of any of the subclasses (lines 943-960, 1024-1049,
\* 1101-1120, 1168-1200 and 1270-1297) on a system without a history file.
InitAdapters ==
  /\ _firstEntry = NewStore.firstEntry
  /\ _lastEntry = NewStore.lastEntry
  /\ _usedMemory = NewStore.usedMemory
  /\ _refTime = NewStore.refTime
  /\ _initialTime = NewStore.initialTime
  /\ _history = NewStore.history
  /\ _restarted = NewStore.restarted
  /\ _currentEntry = 1
  /\ _transfer = FALSE
  /\ _setTime = TRUE
  /\ _loading = TRUE
  /\ historyStatus = NoStatus
  /\ file = Missing
  /\ readData = Missing
  /\ saveTimers = 0
  /\ event = NoEvent
  /\ seq = 0
  /\ loadingAdds = {}
  /\ restarts = 0
  /\ clock = epoch + 600
  /\ appended = 0
  /\ retryOfWrite = FALSE
  /\ adapter \in Adapters
  /\ \E total0 \in InitialTotals : sensor = NewSensor(adapter, total0)
  /\ codec = NoCodec

\* The heartbeat (without the daily save), the completion of the load, and the
\* handlers of the subclasses, under a clock that is past the device epoch.
NextAdapters ==
  \/ \E beat \in {300, 605}, now \in TimesAfterEpoch : _heartbeat(beat, now)
  \/ LoadDone(readData)
  \/ \E value \in StatusValues, T \in TimesAfterEpoch : ContactDidSet(value, T)
  \/ \E value \in StatusValues, T \in TimesAfterEpoch : MotionDidSet(value, T)
  \/ \E value \in PowerValues, T \in TimesAfterEpoch : PowerDidSet(value, T)
  \/ \E value \in TemperatureValues : WeatherDidSet(value)
  \/ \E value \in ConsumptionValues : ConsumptionSet(value)
  \/ ResetTotal

SpecAdapters == InitAdapters /\ [][NextAdapters]_vars

\* ------------------------------------------------- conversion functions
\* The digits toString('hex') prints and the upper-case digits the pattern of
\* line 639 accepts as well (/[^0-9A-F]/ig).
HexLower == <<"0", "1", "2", "3", "4", "5", "6", "7", "8", "9",
              "a", "b", "c", "d", "e", "f">>
HexUpper == <<"0", "1", "2", "3", "4", "5", "6", "7", "8", "9",
              "A", "B", "C", "D", "E", "F">>

\* The base64 alphabet.
Base64Chars ==
  <<"A", "B", "C", "D", "E", "F", "G", "H", "I", "J", "K", "L", "M",
    "N", "O", "P", "Q", "R", "S", "T", "U", "V", "W", "X", "Y", "Z",
    "a", "b", "c", "d", "e", "f", "g", "h", "i", "j", "k", "l", "m",
    "n", "o", "p", "q", "r", "s", "t", "u", "v", "w", "x", "y", "z",
    "0", "1", "2", "3", "4", "5", "6", "7", "8", "9", "+", "/">>

IsHexDigit(c) == \E i \in DOMAIN HexLower : HexLower[i] = c \/ HexUpper[i] = c
HexValue(c) ==
  (CHOOSE i \in DOMAIN HexLower : HexLower[i] = c \/ HexUpper[i] = c) - 1
IsBase64Char(c) == \E i \in DOMAIN Base64Chars : Base64Chars[i] = c
Base64Value(c) == (CHOOSE i \in DOMAIN Base64Chars : Base64Chars[i] = c) - 1

\* value.replace(/[^0-9A-F]/ig, '') (line 639).
StripNonHex(value) == SelectSeq(value, IsHexDigit)

\* Buffer.from(digits, 'hex') on a string of hex digits: one byte per pair
\* of digits; a last digit without a partner is dropped without an error.
HexDecode(digits) ==
  [i \in 1 .. (Len(digits) \div 2) |->
     HexValue(digits[2 * i - 1]) * 16 + HexValue(digits[2 * i])]

\* buffer.toString('hex'): two lower-case digits per byte.
HexEncode(bytes) ==
  [i \in 1 .. (2 * Len(bytes)) |->
     IF i % 2 = 1 THEN HexLower[(bytes[(i + 1) \div 2] \div 16) + 1]
     ELSE HexLower[(bytes[i \div 2] % 16) + 1]]

\* buffer.toString('base64'): four characters per three bytes, padded with =.
RECURSIVE Base64Encode(_)
Base64Encode(bytes) ==
  IF Len(bytes) = 0 THEN <<>>
  ELSE IF Len(bytes) = 1
  THEN <<Base64Chars[(bytes[1] \div 4) + 1],
         Base64Chars[(bytes[1] % 4) * 16 + 1], "=", "=">>
  ELSE IF Len(bytes) = 2
  THEN <<Base64Chars[(bytes[1] \div 4) + 1],
         Base64Chars[(bytes[1] % 4) * 16 + (bytes[2] \div 16) + 1],
         Base64Chars[(bytes[2] % 16) * 4 + 1], "=">>
  ELSE <<Base64Chars[(bytes[1] \div 4) + 1],
         Base64Chars[(bytes[1] % 4) * 16 + (bytes[2] \div 16) + 1],
         Base64Chars[(bytes[2] % 16) * 4 + (bytes[3] \div 64) + 1],
         Base64Chars[(bytes[3] % 64) + 1]>>
       \o Base64Encode(SubSeq(bytes, 4, Len(bytes)))

\* The bytes of a sequence of 6-bit values: three per four values, and one or
\* two for a last group of two or three.
RECURSIVE SextetBytes(_)
SextetBytes(v) ==
  IF Len(v) < 2 THEN <<>>
  ELSE IF Len(v) = 2 THEN <<v[1] * 4 + (v[2] \div 16)>>
  ELSE IF Len(v) = 3
  THEN <<v[1] * 4 + (v[2] \div 16), (v[2] % 16) * 16 + (v[3] \div 4)>>
  ELSE <<v[1] * 4 + (v[2] \div 16), (v[2] % 16) * 16 + (v[3] \div 4),
         (v[3] % 4) * 64 + v[4]>>
       \o SextetBytes(SubSeq(v, 5, Len(v)))

\* Buffer.from(text, 'base64'): characters outside the alphabet (the padding
\* included) carry no bits.
Base64Decode(text) ==
  LET chars == SelectSeq(text, IsBase64Char)
  IN  SextetBytes([i \in 1 .. Len(chars) |-> Base64Value(chars[i])])

\* hexToBase64(value) for a string value (lines 635-641).
hexToBase64(value) == Base64Encode(HexDecode(StripNonHex(value)))

\* base64ToHex(value) for a string value (lines 643-648).
base64ToHex(value) == HexEncode(Base64Decode(value))

\* The int32 image of the unsigned 32-bit value with the bytes b (most
\* significant first): what the operators & and >>> of swap32 make of it.
Int32Of(b) ==
  (IF b[1] >= 128 THEN b[1] - 256 ELSE b[1]) * 16777216
    + b[2] * 65536 + b[3] * 256 + b[4]

\* Whether the number x is the unsigned 32-bit value with the bytes b.
IsUnsigned(x, b) ==
  /\ x \div 256 = b[1] * 65536 + b[2] * 256 + b[3]
  /\ x % 256 = b[4]

\* Bytes of the 32-bit values and characters of the strings the functions are
\* applied to.
ByteValues == {0, 1, 127, 128, 255}
HexChars == {"0", "1", "a", "F", " "}
HexStrings == UNION {[1 .. n -> HexChars] : n \in 0 .. MaxHexLen}

\* Every variable but codec.
objectVars == <<storeVars, transferVars, _loading, historyStatus, file, readData,
                saveTimers, event, seq, loadingAdds, restarts, clock, appended,
                retryOfWrite, adapter, sensor>>

\* A newly constructed object and an argument for swap32 or for hexToBase64.
InitCodec ==
  /\ _firstEntry = NewStore.firstEntry
  /\ _lastEntry = NewStore.lastEntry
  /\ _usedMemory = NewStore.usedMemory
  /\ _refTime = NewStore.refTime
  /\ _initialTime = NewStore.initialTime
  /\ _history = NewStore.history
  /\ _restarted = NewStore.restarted
  /\ _currentEntry = 1
  /\ _transfer = FALSE
  /\ _setTime = TRUE
  /\ _loading = TRUE
  /\ historyStatus = NoStatus
  /\ file = Missing
  /\ readData = Missing
  /\ saveTimers = 0
  /\ event = NoEvent
  /\ seq = 0
  /\ loadingAdds = {}
  /\ restarts = 0
  /\ clock = epoch
  /\ appended = 0
  /\ retryOfWrite = FALSE
  /\ adapter = "Contact"
  /\ sensor = NewSensor("Contact", 0)
  /\ \/ \E b \in [1 .. 4 -> ByteValues] :
          codec = [NoCodec EXCEPT !.op = "word", !.bytes = b]
     \/ \E x \in HexStrings :
          codec = [NoCodec EXCEPT !.op = "hex", !.text = x]

\* swap32(v) for the 32-bit value v held in codec.bytes.
Swap32 ==
  /\ codec.op = "word"
  /\ codec' = [codec EXCEPT !.op = "swap32",
                            !.word = swap32(Int32Of(codec.bytes))]
  /\ UNCHANGED objectVars

\* swap32 of the number the first application returned.
Swap32Again ==
  /\ codec.op = "swap32"
  /\ codec' = [codec EXCEPT !.op = "swap32swap32", !.word = swap32(codec.word)]
  /\ UNCHANGED objectVars

\* hexToBase64(x) for the string x held in codec.text.
HexToBase64 ==
  /\ codec.op = "hex"
  /\ codec' = [codec EXCEPT !.op = "hexToBase64", !.out = hexToBase64(codec.text)]
  /\ UNCHANGED objectVars

\* base64ToHex of the string hexToBase64 returned.
Base64ToHex ==
  /\ codec.op = "hexToBase64"
  /\ codec' = [codec EXCEPT !.op = "base64ToHex", !.out = base64ToHex(codec.out)]
  /\ UNCHANGED objectVars

NextCodec ==
  \/ Swap32
  \/ Swap32Again
  \/ HexToBase64
  \/ Base64ToHex

SpecCodec == InitCodec /\ [][NextCodec]_vars

\* ------------------------------------------------------------------ claims
ReadKinds == {"sentinel", "data", "throw"}

\* The logical index the i-th record of the read just made was emitted for.
IndexOf(i) == event.cursor0 + i - 1

\* C1: in every reachable state of the store (initially, after any sequence of
\* _addEntry calls and after the restore of a snapshot the store saved),
\* lastEntry = firstEntry + usedMemory.
C1_LastIsFirstPlusUsed == _lastEntry = _firstEntry + _usedMemory

\* A second process restored a snapshot of a buffer that had wrapped: it has
\* evicted nothing itself (_restarted) and yet firstEntry > 0.
C1_Witness ==
  /\ restarts = 1
  /\ ~_loading
  /\ _restarted
  /\ _firstEntry > 0
  /\ _usedMemory = MemorySize

\* C2: after every _addEntry call, 0 <= usedMemory <= memorySize.
C2_UsedWithinCapacity == 0 <= _usedMemory /\ _usedMemory <= MemorySize

\* C3: the entries of the _addEntry invocations made while the load was
\* outstanding are in the ring buffer once the load has completed, in the order
\* of the invocations (stated for the load of a snapshot an earlier process
\* saved, into a buffer that has evicted nothing).
C3_AddsDuringLoadKept ==
  [][(_loading /\ ~_loading' /\ readData.exists /\ _firstEntry' = 0) =>
       /\ \A s \in loadingAdds :
            \E a \in DOMAIN _history' :
              _history'[a].kind = "entry" /\ _history'[a].seq = s
       /\ \A s1, s2 \in loadingAdds :
            \A a1, a2 \in DOMAIN _history' :
              ( /\ s1 < s2
                /\ _history'[a1].kind = "entry" /\ _history'[a1].seq = s1
                /\ _history'[a2].kind = "entry" /\ _history'[a2].seq = s2 )
              => _history'[a1].idx < _history'[a2].idx]_vars

\* C4: while the load stays outstanding no step changes firstEntry, lastEntry,
\* usedMemory, refTime, initialTime, a history slot or the published status.
C4_NoChangeWhileLoading ==
  [][(_loading /\ _loading' /\ restarts' = restarts) =>
       UNCHANGED <<_firstEntry, _lastEntry, _usedMemory, _refTime, _initialTime,
                   _history, historyStatus>>]_vars

\* C5: after a start-transfer request the cursor is firstEntry + 1 if the
\* requested index is 0, and the requested index otherwise.
C5_ZeroStartsAtOldest ==
  event.kind = "request" =>
    _currentEntry = (IF swap32(event.field) = 0 THEN _firstEntry + 1
                     ELSE swap32(event.field))

\* C6: every record a read emits is emitted for a retained logical index k,
\* firstEntry + 1 <= k <= lastEntry, and an entry record carries the entry that
\* was appended at index k.
C6_NoEvictedIndexServed ==
  event.kind = "data" =>
    \A i \in 1 .. Len(event.records) :
      /\ _firstEntry + 1 <= IndexOf(i)
      /\ IndexOf(i) <= _lastEntry
      /\ event.records[i].type = "entry" => event.records[i].idx = IndexOf(i)

\* C7: a read made while the session is active and cursor > lastEntry returns
\* the sentinel chunk 00 and leaves the session inactive.
C7_SentinelPastLast ==
  (event.kind \in ReadKinds /\ event.transfer0 /\ event.cursor0 > _lastEntry) =>
    (event.kind = "sentinel" /\ ~_transfer)

C7_Witness ==
  /\ event.kind = "sentinel"
  /\ event.transfer0
  /\ event.cursor0 > _lastEntry
  /\ _lastEntry > 0

\* C8: a read made while the session is active and cursor <= lastEntry emits
\* exactly min(chunk size, lastEntry - cursor + 1) records, one per consecutive
\* index from the cursor on, each embedding its index, and advances the cursor
\* by the number of records.
C8_ChunkOfConsecutiveRecords ==
  (event.kind \in ReadKinds /\ event.transfer0 /\ event.cursor0 <= _lastEntry) =>
    /\ event.kind = "data"
    /\ Len(event.records) =
         (IF _lastEntry - event.cursor0 + 1 < ChunkSize
          THEN _lastEntry - event.cursor0 + 1 ELSE ChunkSize)
    /\ Len(event.records) >= 1
    /\ _currentEntry = event.cursor0 + Len(event.records)
    /\ \A i \in 1 .. Len(event.records) :
         swap32(event.records[i].entry) = IndexOf(i)

\* C9: the record for index k is the set-reference-time record (embedding k and
\* refTime) exactly when the slot of k holds a reftime marker, or the resync flag
\* is set, or k = firstEntry + 1, and the entry record of that slot otherwise;
\* emitting a set-reference-time record clears the resync flag.
C9_RefTimeRecordRule ==
  event.kind = "data" =>
    /\ \A i \in 1 .. Len(event.records) :
         LET k == IndexOf(i)
             slot == _history[JsRem(k, MemorySize)]
             rec == event.records[i]
             flag == event.setTime0 /\
                     \A j \in 1 .. (i - 1) : event.records[j].type # "reftime"
         IN  IF slot.kind = "marker" \/ flag \/ k = _firstEntry + 1
             THEN /\ rec.type = "reftime"
                  /\ swap32(rec.entry) = k
                  /\ swap32(rec.time) = _refTime
             ELSE /\ rec.type = "entry"
                  /\ swap32(rec.entry) = k
                  /\ rec.seq = slot.seq
    /\ (\E i \in 1 .. Len(event.records) : event.records[i].type = "reftime")
         => ~_setTime

\* One chunk holding an entry record and, with the resync flag clear, a
\* set-reference-time record.
C9_Witness ==
  /\ event.kind = "data"
  /\ ~event.setTime0
  /\ \E i \in 1 .. Len(event.records) : event.records[i].type = "reftime"
  /\ \E i \in 1 .. Len(event.records) : event.records[i].type = "entry"

\* C10: after a start-transfer request the session is active and the cursor is
\* the requested index, or 1 for a request of 0, whatever session existed.
C10_RequestReplacesSession ==
  event.kind = "request" =>
    /\ _transfer
    /\ _currentEntry = (IF swap32(event.field) # 0 THEN swap32(event.field) ELSE 1)

\* A request written over an active session whose cursor it moves back.
C10_Witness ==
  /\ event.kind = "request"
  /\ event.transfer0
  /\ swap32(event.field) = 2
  /\ _currentEntry = 2
  /\ _lastEntry > 2

\* C11: on a store into which exactly n entries have been appended since it was
\* empty (1 <= n, the marker and the n entries fit one chunk and the ring),
\* the read that follows a start request for entry 0 returns one chunk holding
\* a set-reference-time record and then the records of the n entries in the
\* order they were appended, and the read after it returns the sentinel 00.
C11_OneChunkThenSentinel ==
  [][/\ ( /\ event.kind = "request" /\ swap32(event.field) = 0
          /\ event'.kind \in ReadKinds
          /\ appended \in 1 .. (ChunkSize - 1)
          /\ appended + 1 <= MemorySize )
        => /\ event'.kind = "data"
           /\ Len(event'.records) = appended + 1
           /\ event'.records[1].type = "reftime"
           /\ \A j \in 1 .. appended :
                /\ event'.records[j + 1].type = "entry"
                /\ event'.records[j + 1].seq = seq - appended + j
     /\ ( /\ event.kind = "data" /\ event.cursor0 = 1
          /\ event'.kind \in ReadKinds
          /\ appended \in 1 .. (ChunkSize - 1)
          /\ appended + 1 <= MemorySize )
        => event'.kind = "sentinel"]_vars

\* C12 as stated: after capacity + 1 entries have been appended to an empty
\* store, index 1 is not retained, and index 2 is retained and its slot holds
\* the second entry appended.
C12_SecondEntryAtIndexTwo ==
  appended = MemorySize + 1 =>
    /\ _firstEntry + 1 > 1
    /\ _firstEntry + 1 <= 2 /\ 2 <= _lastEntry
    /\ _history[2 % MemorySize].kind = "entry"
    /\ _history[2 % MemorySize].seq = seq - appended + 2

\* C12 as amended: after capacity + 1 entries have been appended to an empty
\* store neither index 1 nor index 2 is retained: firstEntry >= 3.
C12_FirstIndicesEvicted ==
  appended = MemorySize + 1 => _firstEntry >= 3

\* Capacity + 1 entries appended under a clock past the epoch: the marker and
\* the first two entries have been evicted.
C12_Witness ==
  /\ appended = MemorySize + 1
  /\ _refTime > 0
  /\ _firstEntry = 3
  /\ _usedMemory = MemorySize

\* C13: the _addEntry made on the empty store sets refTime = time - epoch and
\* initialTime = time, stores a reftime marker at index 1 and the entry at
\* index 2, and leaves usedMemory = lastEntry = 2.
C13_FirstAddSetsRefTime ==
  [][( /\ seq' = seq + 1
       /\ _usedMemory = 0 /\ _lastEntry = 0 /\ _firstEntry = 0 /\ _refTime = 0
       /\ _history = NewStore.history )
     => /\ _refTime' = clock' - epoch
        /\ _initialTime' = clock'
        /\ _history'[1].kind = "marker" /\ _history'[1].time = clock'
        /\ _history'[2].kind = "entry" /\ _history'[2].time = clock'
        /\ _history'[2].seq = seq'
        /\ _usedMemory' = 2
        /\ _lastEntry' = 2
        /\ _firstEntry' = 0]_vars

\* The store after its first _addEntry, made past the epoch.
C13_Witness ==
  /\ appended = 1
  /\ _usedMemory = 2 /\ _lastEntry = 2
  /\ _history[1].kind = "marker" /\ _history[2].kind = "entry"
  /\ _refTime = _initialTime - epoch
  /\ _refTime > 0

\* C14: once an _addEntry has set refTime and initialTime, no later _addEntry
\* changes either of them or stores another first-entry reftime marker (which
\* would count one more used slot than the entry itself).
C14_RefTimeSetOnce ==
  [][(seq' = seq + 1 /\ _initialTime # Undefined)
     => /\ _refTime' = _refTime
        /\ _initialTime' = _initialTime
        /\ _usedMemory' <= _usedMemory + 1
        /\ _lastEntry' - _firstEntry' <= _lastEntry - _firstEntry + 1]_vars

\* C15: the _addEntry made while usedMemory = capacity in a process that has
\* not evicted yet writes a reftime marker at the boundary slot, advances
\* firstEntry and lastEntry by 2 and clears restarted; restarted stays cleared
\* for the rest of the process, an _addEntry made with restarted cleared
\* advances firstEntry by at most 1, and one made while the buffer is filling
\* inserts no restart marker.
C15_RestartMarkerOnce ==
  [][/\ (seq' = seq + 1 /\ _usedMemory = MemorySize /\ _restarted)
          => /\ ~_restarted'
             /\ _firstEntry' = _firstEntry + 2
             /\ _lastEntry' = _lastEntry + 2
             /\ _history'[(_lastEntry + 1) % MemorySize].kind = "marker"
             /\ _history'[(_lastEntry + 1) % MemorySize].seq = seq'
     /\ (seq' = seq + 1 /\ ~_restarted)
          => _firstEntry' <= _firstEntry + 1
     /\ (seq' = seq + 1 /\ _usedMemory < MemorySize)
          => (_restarted' = _restarted /\ _firstEntry' = 0)
     /\ (~_restarted /\ restarts' = restarts) => ~_restarted']_vars

\* C16: an _addEntry made while usedMemory = capacity leaves usedMemory =
\* capacity, increases firstEntry and stores the entry at slot
\* lastEntry mod capacity, lastEntry being the new value.
C16_FullBufferEvicts ==
  [][(seq' = seq + 1 /\ _usedMemory = MemorySize)
     => /\ _usedMemory' = MemorySize
        /\ _firstEntry' > _firstEntry
        /\ _history'[_lastEntry' % MemorySize] = Entry(clock', _lastEntry', seq')]_vars

\* C17: in every reachable state, usedMemory < capacity implies firstEntry = 0.
C17_FillingKeepsFirstZero == _usedMemory < MemorySize => _firstEntry = 0

\* A process that restored the snapshot of a buffer that was still filling.
C17_Witness ==
  /\ restarts = 1
  /\ ~_loading
  /\ appended = Undefined
  /\ 0 < _usedMemory /\ _usedMemory < MemorySize
  /\ _firstEntry = 0
  /\ _lastEntry = _usedMemory

C19_DamagedLoadLeavesEmpty ==
  [][/\ ( /\ _loading /\ ~_loading'
          /\ ~IsSnapshot(readData) /\ ~IsSnapshot(file)
          /\ Store = NewStore )
        => /\ _firstEntry' = 0
           /\ _lastEntry' = 0
           /\ _usedMemory' = 0
           /\ _refTime' = 0
           /\ _history' = NewStore.history
     /\ event'.kind # "addThrow"]_vars

\* C20 as stated: the status an applied _addEntry publishes holds, in order,
\* time - epoch - refTime, refTime, the fingerprint, usedMemory, capacity and
\* firstEntry.
C20_StatusEncodesCounts ==
  [][seq' = seq + 1
     => /\ Len(historyStatus') = 6
        /\ swap32(historyStatus'[1]) = clock' - epoch - _refTime'
        /\ swap32(historyStatus'[2]) = _refTime'
        /\ historyStatus'[3] = _fingerPrint
        /\ swap16(historyStatus'[4]) = _usedMemory'
        /\ swap16(historyStatus'[5]) = MemorySize
        /\ swap32(historyStatus'[6]) = _firstEntry']_vars

\* C20 as amended: the used-memory field is usedMemory + 1 while usedMemory <
\* capacity and usedMemory otherwise, and the first-entry field is firstEntry
\* while usedMemory < capacity and firstEntry + 1 otherwise.
C20_StatusEncodesOffsetCounts ==
  [][seq' = seq + 1
     => /\ Len(historyStatus') = 6
        /\ swap32(historyStatus'[1]) = clock' - epoch - _refTime'
        /\ swap32(historyStatus'[2]) = _refTime'
        /\ historyStatus'[3] = _fingerPrint
        /\ swap16(historyStatus'[4]) =
             (IF _usedMemory' < MemorySize THEN _usedMemory' + 1 ELSE _usedMemory')
        /\ swap16(historyStatus'[5]) = MemorySize
        /\ swap32(historyStatus'[6]) =
             (IF _usedMemory' < MemorySize THEN _firstEntry' ELSE _firstEntry' + 1)]_vars

\* The status published by an _addEntry on a buffer that has evicted: the
\* used-memory field is the capacity, the first-entry field firstEntry + 1.
C20_Witness ==
  /\ Len(historyStatus) = 6
  /\ _usedMemory = MemorySize
  /\ _firstEntry > 0
  /\ swap16(historyStatus[4]) = _usedMemory
  /\ swap32(historyStatus[6]) = _firstEntry + 1
  /\ swap32(historyStatus[1]) = clock - epoch - _refTime
  /\ swap32(historyStatus[2]) = _refTime
  /\ _refTime > 0

\* The steps that invoke _save: a heartbeat that called _addEntry (it saves
\* when beat mod 86400 = 5), the shutdown event, a retry timer.
SaveKinds == {"tick", "shutdown", "saveRetry"}

\* C21: a save trigger causes at most one write of the snapshot: the retry
\* timer a trigger arms while the load is outstanding does not write again
\* when the invocation that armed it has written already.
C21_OneWritePerTrigger ==
  [][(event'.kind = "saveRetry" /\ event'.wrote) => ~retryOfWrite]_vars

\* C28: a step that only saves (shutdown, retry timer) and the completion of
\* a load leave the cursor, the active flag, the resync flag and the restarted
\* flag unchanged; what a save writes is made of firstEntry, lastEntry,
\* usedMemory, refTime, initialTime and history; a newly constructed store is
\* inactive with cursor 1, resync set and restarted true.
C28_SessionNotPersisted ==
  [][/\ (event'.kind \in {"shutdown", "saveRetry"})
          => UNCHANGED <<_currentEntry, _transfer, _setTime, _restarted>>
     /\ (event'.kind \in SaveKinds /\ event'.wrote)
          => /\ file'.firstEntry = _firstEntry'
             /\ file'.lastEntry = _lastEntry'
             /\ file'.usedMemory = _usedMemory'
             /\ file'.refTime = _refTime'
             /\ file'.hasInitialTime = (_initialTime' # Undefined)
             /\ file'.hasInitialTime => file'.initialTime = _initialTime'
             /\ DOMAIN file'.history = DOMAIN _history'
     /\ (_loading /\ ~_loading')
          => UNCHANGED <<_currentEntry, _transfer, _setTime, _restarted>>
     /\ (restarts' = restarts + 1)
          => /\ ~_transfer'
             /\ _currentEntry' = 1
             /\ _setTime'
             /\ _restarted']_vars

\* A second process has loaded the snapshot of the first while a transfer
\* session requested during the load was active: the session and the
\* restarted flag are as they were before the load completed.
C28_Witness ==
  /\ restarts = 1
  /\ ~_loading
  /\ appended = Undefined
  /\ _usedMemory > 0
  /\ _transfer
  /\ _currentEntry = 2
  /\ _restarted

\* C29: an invocation of _save made while the load is outstanding does not
\* write the history file.
C29_NoWriteWhileLoading ==
  [][(_loading /\ event'.kind \in SaveKinds) =>
       (~event'.wrote /\ file' = file)]_vars

\* C30: no read of the entries field throws, whatever index the start
\* request asked for: the read hands its callback a chunk of records or the
\* sentinel.
C30_ReadNeverThrows == event.kind # "throw"

\* C22 as stated: an entry of Contact or Motion is appended only by a step
\* of the didSet handler of the observed characteristic.
C22_EventBasedOnlyByChange ==
  [][(adapter \in {"Contact", "Motion"} /\ seq' = seq + 1)
       => event'.kind = "didSet"]_vars

\* C22 as amended: the heartbeat with beat mod 600 = 5 invokes _addEntry for
\* Contact, Motion and Weather on every such beat, for Consumption once a
\* previous total and for Power once a previous time is recorded; the didSet
\* handlers of Contact and Motion invoke it as well, those of Power and
\* Weather do not.
C22_HeartbeatAppendsForAll ==
  [][/\ (event'.kind = "tick" /\ adapter \in BaseAdders) => seq' = seq + 1
     /\ (event'.kind = "tick" /\ adapter = "Consumption")
          => (seq' = seq + 1 <=> sensor.lastConsumption # Undefined)
     /\ (event'.kind = "tick" /\ adapter = "Power")
          => (seq' = seq + 1 <=> sensor.lastTime # Undefined)
     /\ (event'.kind = "didSet" /\ adapter \in {"Contact", "Motion"})
          => seq' = seq + 1
     /\ (event'.kind = "didSet" /\ adapter \in {"Power", "Weather"})
          => seq' = seq
     /\ (seq' = seq + 1) => event'.kind \in {"tick", "didSet", "addThrow"}]_vars

\* A heartbeat has appended an entry to the history of a Contact adapter whose
\* value had been changed to 1 before.
C22_Witness ==
  /\ adapter = "Contact"
  /\ event.kind = "tick"
  /\ sensor.value = 1
  /\ seq >= 2
  /\ _history[_lastEntry % MemorySize].kind = "entry"
  /\ _history[_lastEntry % MemorySize].seq = seq
  /\ _history[_lastEntry % MemorySize].payload = 1

\* C23: when the contact value changes to v at wall-clock time T (after a
\* first entry has been appended), timesOpened increases by v, lastActivation
\* becomes T - initialTime, and one entry with status v and time T is appended
\* under the fingerprint '01 0601'.
C23_ContactChange ==
  [][(event'.kind = "didSet" /\ adapter = "Contact" /\ IsNumber(_initialTime))
     => /\ sensor'.timesOpened = sensor.timesOpened + event'.field
        /\ sensor'.lastActivation = clock' - _initialTime
        /\ seq' = seq + 1
        /\ _history'[_lastEntry' % MemorySize] =
             [Entry(clock', _lastEntry', seq') EXCEPT !.payload = event'.field]
        /\ historyStatus'[3] = "01 0601"]_vars

\* C24: at a heartbeat of a Power adapter whose power P > 0 has not been set
\* since the previous heartbeat D seconds ago, the appended entry has power
\* round(P * D / 600), the life-time total grows by round(P * D / 3600), and
\* the running value is 0 afterwards.
C24_PowerBucket ==
  [][( /\ event'.kind = "tick" /\ adapter = "Power"
       /\ sensor.tickClock # Undefined /\ ~sensor.changed
       /\ sensor.lastPower > 0 /\ clock' > sensor.tickClock )
     => LET P == sensor.lastPower
            D == clock' - sensor.tickClock
        IN  /\ seq' = seq + 1
            /\ _history'[_lastEntry' % MemorySize].payload = RoundDiv(P * D, 600)
            /\ sensor'.consumption = sensor.consumption + RoundDiv(P * D, 3600)
            /\ sensor'.running = 0]_vars

\* C25 as stated: a write to reset-total on Consumption or Power leaves the
\* running and life-time values and the life-time characteristic 0, and does
\* not change firstEntry, lastEntry, usedMemory, refTime or the history.
C25_ResetZeroesBoth ==
  [][(event'.kind = "resetTotal" /\ adapter \in {"Consumption", "Power"})
     => /\ sensor'.running = 0
        /\ sensor'.total = 0
        /\ (IF adapter = "Power" THEN sensor'.consumption ELSE sensor'.value) = 0
        /\ UNCHANGED <<_firstEntry, _lastEntry, _usedMemory, _refTime,
                       _history>>]_vars

\* C25 as amended: a write to reset-total on Power leaves the running and
\* life-time values and the life-time characteristic 0; on Contact it leaves
\* timesOpened 0; on Consumption, which has no such characteristic, nothing
\* is changed; in no case firstEntry, lastEntry, usedMemory, refTime or the
\* history change.
C25_ResetZeroesPower ==
  [][(event'.kind = "resetTotal")
     => /\ adapter = "Power" => /\ sensor'.running = 0
                                /\ sensor'.total = 0
                                /\ sensor'.consumption = 0
        /\ adapter = "Contact" => sensor'.timesOpened = 0
        /\ adapter = "Consumption" => sensor' = sensor
        /\ UNCHANGED <<_firstEntry, _lastEntry, _usedMemory, _refTime,
                       _history>>]_vars

\* Reset-total has been written on a Power adapter that had appended entries
\* and whose life-time total was not 0.
C25_Witness ==
  /\ adapter = "Power"
  /\ event.kind = "resetTotal"
  /\ sensor.tickClock # Undefined
  /\ _usedMemory > 1
  /\ sensor.total = 0
  /\ sensor.consumption = 0
  /\ sensor.running = 0

\* C26: swap32(swap32(v)) = v for every unsigned 32-bit value v.
C26_Swap32Involution ==
  codec.op = "swap32swap32" => IsUnsigned(codec.word, codec.bytes)

\* C27: base64ToHex(hexToBase64(x)) = x for every even-length string x of
\* hex digits, and hexToBase64 fails when x without its non-hex characters
\* has odd length.
C27_HexBase64RoundTrip ==
  /\ ( /\ codec.op = "base64ToHex"
       /\ StripNonHex(codec.text) = codec.text
       /\ Len(codec.text) % 2 = 0 )
     => codec.out = codec.text
  /\ ( /\ codec.op \in {"hexToBase64", "base64ToHex"}
       /\ Len(StripNonHex(codec.text)) % 2 = 1 )
     => codec.failed

\* C31: a read that returns the sentinel leaves the session inactive; while
\* the session is inactive (none was started, or a read has returned the
\* sentinel) every read returns the sentinel, whatever has been appended; and
\* only a start-transfer request makes the session active.
C31_SentinelUntilRequest ==
  [][/\ (event'.kind = "sentinel") => ~_transfer'
     /\ (~_transfer /\ event'.kind \in ReadKinds) => event'.kind = "sentinel"
     /\ (~_transfer /\ _transfer') => event'.kind = "request"]_vars

\* A read of an ended session has returned the sentinel although entries
\* appended since lie at and beyond the cursor.
C31_Witness ==
  /\ event.kind = "sentinel"
  /\ ~event.transfer0
  /\ restarts = 0
  /\ event.cursor0 >= 2
  /\ event.cursor0 <= _lastEntry
  /\ Readable(_history, event.cursor0 % MemorySize)

\* C33: a read of the entries field changes none of firstEntry, lastEntry,
\* usedMemory, refTime, initialTime, restarted and the history slots.
C33_ReadLeavesStore ==
  [][(event'.kind \in ReadKinds) =>
       UNCHANGED <<_firstEntry, _lastEntry, _usedMemory, _refTime, _initialTime,
                   _restarted, _history>>]_vars

\* A read has returned a chunk of records and advanced the cursor over a
\* store that holds entries and counts as restarted.
C33_Witness ==
  /\ event.kind = "data"
  /\ Len(event.records) >= 2
  /\ _currentEntry > event.cursor0
  /\ _usedMemory >= 2
  /\ _restarted

\* C34: when the didSet handler of a Contact or Motion adapter computes
\* lastActivation, initialTime has been set.
C34_InitialTimeSetBeforeActivation ==
  [][(event'.kind = "didSet" /\ adapter \in {"Contact", "Motion"})
       => _initialTime # Undefined]_vars

\* The number of slots that hold the entry of the n-th invocation of _addEntry.
EntriesOf(history, n) ==
  Cardinality({a \in DOMAIN history :
                 history[a].kind = "entry" /\ history[a].seq = n})

\* C35: a heartbeat tick of a Consumption or Power adapter that finds no
\* baseline (no previous total; no previous sample time) appends nothing and
\* records the baseline; a tick that finds one appends exactly one entry.
C35_TickNeedsBaseline ==
  [][(event'.kind = "tick" /\ adapter \in {"Consumption", "Power"})
     => LET baseline == IF adapter = "Consumption"
                        THEN sensor.lastConsumption # Undefined
                        ELSE sensor.lastTime # Undefined
        IN  /\ baseline => /\ seq' = seq + 1
                           /\ EntriesOf(_history', seq') = 1
                           /\ EntriesOf(_history, seq') = 0
                           /\ _history'[_lastEntry' % MemorySize].seq = seq'
            /\ ~baseline => /\ UNCHANGED <<_firstEntry, _lastEntry, _usedMemory,
                                           _refTime, _initialTime, _history,
                                           historyStatus, seq>>
                            /\ adapter = "Consumption"
                                 => sensor'.lastConsumption = sensor.value
                            /\ adapter = "Power"
                                 => /\ sensor'.lastTime # Undefined
                                    /\ sensor'.lastPower = sensor.value]_vars

\* A tick of a Consumption adapter has appended the entry for the rise of the
\* total since the previous tick, the first tick having appended nothing.
C35_Witness ==
  /\ adapter = "Consumption"
  /\ event.kind = "tick"
  /\ seq = 1
  /\ sensor.power = 2
  /\ sensor.lastConsumption = 7
  /\ EntriesOf(_history, 1) = 1
  /\ _history[_lastEntry % MemorySize].payload = 12

\* C32: after a start-transfer request for an index of at least 1 (any
\* non-zero value of the 32-bit field), the reads of a host that keeps polling
\* eventually return the sentinel.
C32_ReadsReachSentinel ==
  (event.kind = "request" /\ swap32(event.field) # 0)
    ~> (event.kind = "sentinel" /\ ~_transfer)

====
